---- MODULE Spec2Model ----
(***************************************************************************)
(* Model of runpod/serverless/modules/rp_job.py: the job-take poll         *)
(* (_job_get_url, get_job), the terminal invocation (run_job) and the      *)
(* streaming invocation (run_job_generator).                               *)
(***************************************************************************)
EXTENDS Integers, Sequences, FiniteSets, TLC

VARIABLES
    jobCount,   \* job_list.get_job_count(), owned by the job tracker
    poll,       \* the last get_job call: its arguments, request and return
    handler,    \* the registered handler: makes a dict per call, or keeps one
    heap,       \* the dict objects handlers return, by reference
    inv,        \* the run_job invocations
    script,     \* what the streaming handler's generator does
    gen         \* the run_job_generator runs, one per generator kind

vars == <<jobCount, poll, handler, heap, inv, script, gen>>

-----------------------------------------------------------------------------
(* Bounds *)

\* largest num_jobs a poll asks for
MaxJobs == 3
\* largest number of jobs the tracker holds
MaxBacklog == 2
\* longest JSON array in a response body
MaxBatch == 2

-----------------------------------------------------------------------------
(* Python values *)

\* f-string formatting of a non-negative int: its decimal digits, one token each
DigitChars == <<"0", "1", "2", "3", "4", "5", "6", "7", "8", "9">>

RECURSIVE Str(_)
Str(n) == IF n < 10 THEN <<DigitChars[n + 1]>>
          ELSE Str(n \div 10) \o <<DigitChars[(n % 10) + 1]>>

\* str.replace over a tokenised string: every occurrence of old becomes new
Replace(s, old, new) == [i \in 1..Len(s) |-> IF s[i] = old THEN new ELSE s[i]]

-----------------------------------------------------------------------------
(* _job_get_url *)

\* RUNPOD_WEBHOOK_GET_JOB with $ID replaced, as a sequence of tokens
JOB_GET_URL == <<"https://api.runpod.ai/v2/ep", "/job-take/", "worker-1", "?gpu=x">>

\* faulty variant: the flag as it was when the module was loaded
JobInProgressStale(count) == "0"

\* line 35: "1" if job_list.get_job_count() else "0"
JobInProgress(count) == IF count # 0 THEN "1" ELSE "0"

\* lines 37-41: the endpoint and the batch parameters
JobTakeUrl(batch_size) ==
    IF batch_size > 1
    THEN Replace(JOB_GET_URL, "/job-take/", "/job-take-batch/")
             \o <<"&batch_size=">> \o Str(batch_size) \o <<"&batch_strategy=LMove">>
    ELSE JOB_GET_URL

\* line 43: job_in_progress is appended to either
job_get_url(batch_size, count) ==
    JobTakeUrl(batch_size) \o <<"&job_in_progress=", JobInProgress(count)>>

-----------------------------------------------------------------------------
(* get_job *)

\* one element of a JSON body: a JSON object with some of the keys id/input,
\* or a JSON value that is no object
DictDescriptors == [isdict : {TRUE}, keys : SUBSET {"id", "input"}]
OtherElements == [isdict : {FALSE}, keys : {{}}]
Elements == DictDescriptors \cup OtherElements

RECURSIVE SeqsUpTo(_, _)
SeqsUpTo(S, n) ==
    IF n = 0 THEN {<<>>}
    ELSE LET shorter == SeqsUpTo(S, n - 1)
         IN shorter \cup {Append(s, e) : s \in {t \in shorter : Len(t) = n - 1}, e \in S}

Statuses == {200, 204, 400, 404, 500}

\* what session.get / response.json() can do in one poll
Responses ==
    [kind : {"timeout", "client_error"}, status : {0}, shape : {"none"}, items : {<<>>}]
    \cup [kind : {"http"}, status : Statuses \ {200}, shape : {"none"}, items : {<<>>}]
    \cup [kind : {"http"}, status : {200}, shape : {"malformed", "scalar"}, items : {<<>>}]
    \cup [kind : {"http"}, status : {200}, shape : {"dict"},
          items : {<<d>> : d \in DictDescriptors}]
    \cup [kind : {"http"}, status : {200}, shape : {"list"},
          items : SeqsUpTo(Elements, MaxBatch)]

NoResponse == [kind |-> "none", status |-> 0, shape |-> "none", items |-> <<>>]

Return(v) == [ctl |-> "return", none |-> FALSE, jobs |-> v, exc |-> "-"]
ReturnNone == [ctl |-> "return", none |-> TRUE, jobs |-> <<>>, exc |-> "-"]
Raise(e) == [ctl |-> "raise", none |-> FALSE, jobs |-> <<>>, exc |-> e]
FallThrough == [ctl |-> "fall", none |-> FALSE, jobs |-> <<>>, exc |-> "-"]

\* subclasses of Exception that the request or the parse can raise
Exceptions == {"TimeoutError", "ClientError", "JSONDecodeError", "Exception"}

\* faulty variant: the batch branch keeps only the elements with id and input
GetJobTryChecksEachJob(resp) ==
    IF resp.kind = "timeout" THEN Raise("TimeoutError")
    ELSE IF resp.kind = "client_error" THEN Raise("ClientError")
    ELSE IF resp.status # 200 THEN ReturnNone
    ELSE IF resp.shape = "malformed" THEN Raise("JSONDecodeError")
    ELSE IF resp.shape = "dict"
         THEN IF "id" \notin resp.items[1].keys \/ "input" \notin resp.items[1].keys
              THEN Raise("Exception")
              ELSE Return(<<resp.items[1]>>)
    ELSE IF resp.shape = "list"
         THEN Return(SelectSeq(resp.items, LAMBDA e : {"id", "input"} \subseteq e.keys))
    ELSE FallThrough

\* lines 61-85: the body of the try block
GetJobTry(resp) ==
    IF resp.kind = "timeout" THEN Raise("TimeoutError")
    ELSE IF resp.kind = "client_error" THEN Raise("ClientError")
    ELSE IF resp.status = 204 THEN ReturnNone
    ELSE IF resp.status = 400 THEN ReturnNone
    ELSE IF resp.status # 200 THEN ReturnNone
    ELSE IF resp.shape = "malformed" THEN Raise("JSONDecodeError")
    ELSE IF resp.shape = "dict"
         THEN IF "id" \notin resp.items[1].keys \/ "input" \notin resp.items[1].keys
              THEN Raise("Exception")
              ELSE Return(<<resp.items[1]>>)
    ELSE IF resp.shape = "list" THEN Return(resp.items)
    ELSE FallThrough

\* faulty variant: only the timeout is caught
GetJobExceptOnlyTimeout(t) ==
    IF t.ctl = "return" THEN t
    ELSE IF t.ctl = "raise" /\ t.exc # "TimeoutError" THEN t
    ELSE Return(<<>>)

\* lines 87-96: the except clauses and the trailing return []
GetJobExcept(t) ==
    IF t.ctl = "return" THEN t
    ELSE IF t.ctl = "raise" /\ t.exc = "TimeoutError" THEN Return(<<>>)
    ELSE IF t.ctl = "raise" /\ t.exc \in Exceptions THEN Return(<<>>)
    ELSE IF t.ctl = "raise" THEN t
    ELSE Return(<<>>)

get_job(resp) == GetJobExcept(GetJobTry(resp))

\* prev is the backlog at the poll before this one, -1 when there was none
NoPoll == [pc |-> "idle", done |-> FALSE, num_jobs |-> 0, backlog |-> 0, prev |-> -1, url |-> <<>>,
           resp |-> NoResponse, ret |-> FallThrough]

\* the num_jobs a caller passes: small ones, and one of two digits
NumJobs == (1..MaxJobs) \cup {MaxJobs + 9}

-----------------------------------------------------------------------------
(* run_job_generator *)

\* longest run of items a streaming handler produces
MaxItems == 2

Items == {"1", "2"}

\* the handler's generator: the items it produces, then it returns or raises
Scripts == [items : SeqsUpTo(Items, MaxItems), raises : BOOLEAN]

Branches == {"sync", "async"}

OutputPartial(x) == [kind |-> "output", v |-> x]
ErrorPartial(err) == [kind |-> "error", v |-> err]

\* line 187: yield {"output": output_partial} in the for loop
SyncYield(emitted, x) == Append(emitted, OutputPartial(x))

\* faulty variant: the newest partial goes in front
AsyncYieldNewestFirst(emitted, x) == <<OutputPartial(x)>> \o emitted

\* line 183: yield {"output": output_partial} in the async for loop
AsyncYield(emitted, x) == Append(emitted, OutputPartial(x))

\* faulty variant: the fault is logged and no partial is yielded
ExceptYieldNothing(emitted, err) == emitted

\* lines 189-191: yield {"error": ...}
ExceptYield(emitted, err) == Append(emitted, ErrorPartial(err))

NoScript == [items |-> <<>>, raises |-> FALSE]
IdleGenerator == [pc |-> "idle", next |-> 1, emitted |-> <<>>]
NoGenerators == [b \in Branches |-> IdleGenerator]

\* one step of the handler's generator, asked for its item number k
Step(k) ==
    IF k <= Len(script.items) THEN [kind |-> "item", v |-> script.items[k]]
    ELSE IF script.raises THEN [kind |-> "raise", v |-> "boom"]
    ELSE [kind |-> "stop", v |-> ""]

\* lines 171-178: is_async_gen is read and handler(job) makes the generator
GenCall(b) ==
    /\ gen[b].pc = "idle"
    /\ gen' = [gen EXCEPT ![b].pc = "running"]
    /\ UNCHANGED <<jobCount, poll, handler, heap, inv, script>>

\* lines 185-187 and 189-191: the for loop takes the generator's next step
SyncNext ==
    /\ gen["sync"].pc = "running"
    /\ LET g == gen["sync"]
           s == Step(g.next)
       IN gen' = [gen EXCEPT !["sync"] =
                    IF s.kind = "item"
                    THEN [g EXCEPT !.next = @ + 1, !.emitted = SyncYield(@, s.v)]
                    ELSE IF s.kind = "raise"
                    THEN [g EXCEPT !.pc = "faulted", !.emitted = ExceptYield(@, s.v)]
                    ELSE [g EXCEPT !.pc = "done"]]
    /\ UNCHANGED <<jobCount, poll, handler, heap, inv, script>>

\* line 181: async for awaits the generator's next step
AsyncRequest ==
    /\ gen["async"].pc = "running"
    /\ gen' = [gen EXCEPT !["async"].pc = "awaiting"]
    /\ UNCHANGED <<jobCount, poll, handler, heap, inv, script>>

\* lines 181-183 and 189-191: the awaited step arrives
AsyncDeliver ==
    /\ gen["async"].pc = "awaiting"
    /\ LET g == gen["async"]
           s == Step(g.next)
       IN gen' = [gen EXCEPT !["async"] =
                    IF s.kind = "item"
                    THEN [g EXCEPT !.pc = "running", !.next = @ + 1,
                                   !.emitted = AsyncYield(@, s.v)]
                    ELSE IF s.kind = "raise"
                    THEN [g EXCEPT !.pc = "faulted", !.emitted = ExceptYield(@, s.v)]
                    ELSE [g EXCEPT !.pc = "done"]]
    /\ UNCHANGED <<jobCount, poll, handler, heap, inv, script>>

\* lines 192-193: resumed after the error partial, the finally clause runs
\* and run_job_generator ends
GenEnd(b) ==
    /\ gen[b].pc = "faulted"
    /\ gen' = [gen EXCEPT ![b].pc = "done"]
    /\ UNCHANGED <<jobCount, poll, handler, heap, inv, script>>

-----------------------------------------------------------------------------
(* run_job *)

\* the values a handler puts under a key of the mapping it returns
Vals == {"None", "", "x", "True"}
RefreshVals == {"None", "True", "x"}

\* bool(v)
Truthy(v) == v \notin {"None", "", "False", "0"}

\* what a handler returns that is no mapping (line 133 and line 136 wrap both)
Scalars == {"None", "True", "[]"}

\* a value held by a variable or an envelope field: a scalar, a reference
\* to a dict object, or the serialized diagnostic record
Scalar(s) == [tag |-> "scalar", v |-> s, ref |-> 0]
DictRef(r) == [tag |-> "dict", v |-> "", ref |-> r]
NoValue == [tag |-> "none", v |-> "", ref |-> 0]

\* json.dumps(error_info): error_type names the exception
Diag(e) == [tag |-> "diag", v |-> e, ref |-> 0]

EmptyMap == [k \in {} |-> "None"]

MappingsOver(D) ==
    {m \in [D -> Vals \cup {"1"}] :
        /\ ("error" \in D => m["error"] \in Vals)
        /\ ("refresh_worker" \in D => m["refresh_worker"] \in RefreshVals)
        /\ ("result" \in D => m["result"] = "1")}

\* the mappings a handler returns
Mappings == UNION {MappingsOver(D) : D \in SUBSET {"error", "refresh_worker", "result"}}

\* dict.pop(k, None): the value popped, and the dict afterwards
PopValue(m, k) == IF k \in DOMAIN m THEN m[k] ELSE "None"

PopRest(m, k) == [x \in DOMAIN m \ {k} |-> m[x]]

\* the invocations, and the dict objects: object 0 is one the handler keeps
\* and returns on every call, object i is made by the handler in invocation i
Invs == {1, 2}
SharedRef == 0
Refs == {SharedRef} \cup Invs

\* faulty variant: the error is set whatever its value
ErrorFieldUnconditional(error_msg) == [k \in {"error"} |-> Scalar(error_msg)]

\* line 128: if error_msg: run_result["error"] = error_msg
ErrorField(error_msg) ==
    IF Truthy(error_msg) THEN [k \in {"error"} |-> Scalar(error_msg)] ELSE EmptyMap

\* line 130: if refresh_worker: run_result["stopPod"] = True
StopPodField(refresh_worker) ==
    IF Truthy(refresh_worker) THEN [k \in {"stopPod"} |-> Scalar("True")] ELSE EmptyMap

\* lines 123-137: the heap and run_result after the isinstance branches
Wrap(h, value) ==
    IF value.tag = "dict"
    THEN LET r == value.ref
             error_msg == PopValue(h[r], "error")
             h1 == [h EXCEPT ![r] = PopRest(@, "error")]
             refresh_worker == PopValue(h1[r], "refresh_worker")
             h2 == [h1 EXCEPT ![r] = PopRest(@, "refresh_worker")]
         IN [heap |-> h2,
             run_result |-> [k \in {"output"} |-> DictRef(r)]
                                @@ ErrorField(error_msg) @@ StopPodField(refresh_worker)]
    ELSE [heap |-> h, run_result |-> [k \in {"output"} |-> value]]

\* faulty variant: an empty output stays
DropEmptyOutputNever(h, run_result) == run_result

\* lines 139-140: if run_result.get("output") == {}: run_result.pop("output")
DropEmptyOutput(h, run_result) ==
    IF /\ "output" \in DOMAIN run_result
       /\ run_result["output"].tag = "dict"
       /\ h[run_result["output"].ref] = EmptyMap
    THEN PopRest(run_result, "output")
    ELSE run_result

\* faulty variant: the error is added to what run_result already holds
RunJobExceptKeepsPartial(run_result, err) ==
    [k \in {"error"} |-> Diag(err)] @@ run_result

\* lines 144-156: run_result = {"error": json.dumps(error_info)}
RunJobExcept(run_result, err) == [k \in {"error"} |-> Diag(err)]

\* what the handler does when called or awaited: it raises, or returns a
\* scalar, or returns a dict: the one it keeps, or one it makes in this call
HandlerOutcomes(i) ==
    {[raises |-> TRUE, value |-> NoValue, made |-> EmptyMap]}
    \cup {[raises |-> FALSE, value |-> Scalar(s), made |-> EmptyMap] : s \in Scalars}
    \cup IF handler = "shared"
         THEN {[raises |-> FALSE, value |-> DictRef(SharedRef), made |-> EmptyMap]}
         ELSE {[raises |-> FALSE, value |-> DictRef(i), made |-> m] : m \in Mappings}

\* lines 113-156 once the handler's value is resolved: the try block, then
\* the except clause if the handler or check_return_size raised
RunJobTry(h, out, sizeOk) ==
    IF out.raises
    THEN [heap |-> h, run_result |-> RunJobExcept(EmptyMap, "HandlerError"),
          fault |-> "handler"]
    ELSE LET h0 == IF out.value.tag = "dict" /\ out.value.ref # SharedRef
                   THEN [h EXCEPT ![out.value.ref] = out.made] ELSE h
             w == Wrap(h0, out.value)
             rr == DropEmptyOutput(w.heap, w.run_result)
         IN IF sizeOk
            THEN [heap |-> w.heap, run_result |-> rr, fault |-> "none"]
            ELSE [heap |-> w.heap, run_result |-> RunJobExcept(rr, "SizeError"),
                  fault |-> "size"]

\* the job descriptors get_job hands on: the elements of what it returns
AcquirableJobs ==
    UNION {{get_job(resp).jobs[k] : k \in 1..Len(get_job(resp).jobs)} : resp \in Responses}

\* job["id"] evaluates
HasId(job) == job.isdict /\ "id" \in job.keys

NoJob == [isdict |-> FALSE, keys |-> {}]

Idle == [pc |-> "idle", job |-> NoJob, raised |-> FALSE, ret |-> NoValue,
         orig |-> EmptyMap, fault |-> "none", result |-> EmptyMap]

NoHeap == [r \in Refs |-> EmptyMap]
NoInvocations == [i \in Invs |-> Idle]

\* the mapping the handler's value is, when it returns it
Returned(h, i, out) ==
    IF out.raises \/ out.value.tag # "dict" THEN EmptyMap
    ELSE IF out.value.ref = SharedRef THEN h[SharedRef] ELSE out.made

\* run_job from the resolved handler outcome to its return
Finish(i, job, out, sizeOk) ==
    LET t == RunJobTry(heap, out, sizeOk)
    IN /\ heap' = t.heap
       /\ inv' = [inv EXCEPT ![i] =
                    [pc |-> "done", job |-> job, raised |-> FALSE, ret |-> out.value,
                     orig |-> Returned(heap, i, out), fault |-> t.fault,
                     result |-> t.run_result]]

\* run_job is called: line 110 reads job["id"]; then the handler is called
\* and either returns an awaitable (run_job suspends at line 116) or a value
RunJobCall(i) ==
    /\ inv[i].pc = "idle"
    /\ \E job \in AcquirableJobs :
          \/ /\ ~HasId(job)
             /\ inv' = [inv EXCEPT ![i] = [Idle EXCEPT !.pc = "done", !.job = job,
                                                      !.raised = TRUE]]
             /\ UNCHANGED heap
          \/ /\ HasId(job)
             /\ inv' = [inv EXCEPT ![i] = [Idle EXCEPT !.pc = "awaiting", !.job = job]]
             /\ UNCHANGED heap
          \/ /\ HasId(job)
             /\ \E out \in HandlerOutcomes(i), sizeOk \in BOOLEAN :
                   Finish(i, job, out, sizeOk)
    /\ UNCHANGED <<jobCount, poll, handler, script, gen>>

\* the awaited handler resolves and run_job runs to its return
RunJobResume(i) ==
    /\ inv[i].pc = "awaiting"
    /\ \E out \in HandlerOutcomes(i), sizeOk \in BOOLEAN :
          Finish(i, inv[i].job, out, sizeOk)
    /\ UNCHANGED <<jobCount, poll, handler, script, gen>>

InitRun ==
    /\ jobCount = 0
    /\ poll = NoPoll
    /\ \/ handler = "fresh" /\ heap = NoHeap
       \/ handler = "shared" /\ \E m \in Mappings : heap = [NoHeap EXCEPT ![SharedRef] = m]
    /\ inv = NoInvocations
    /\ script = NoScript
    /\ gen = NoGenerators

NextRun == \E i \in Invs : RunJobCall(i) \/ RunJobResume(i)

SpecRun == InitRun /\ [][NextRun]_vars

-----------------------------------------------------------------------------
(* Properties of run_job *)

\* run_job returned an envelope after the handler's value was normalised
\* and the size check passed
Normal(i) == inv[i].pc = "done" /\ ~inv[i].raised /\ inv[i].fault = "none"

ReturnedDict(i) == inv[i].ret.tag = "dict"

\* the dict object the envelope's output refers to, as it is now
OutputDict(i) == heap[inv[i].result["output"].ref]

\* M without the keys error and refresh_worker
Remainder(m) == [k \in DOMAIN m \ {"error", "refresh_worker"} |-> m[k]]

\* C2 as stated: run_job never raises, whatever the handler does and
\* whatever descriptor get_job handed on.
C2_NeverRaises == \A i \in Invs : ~inv[i].raised

\* C3: when the handler or the size check raises, the envelope is the error
\* field alone, holding the diagnostic record: no output, no stopPod.
C3_FaultEnvelope ==
    \A i \in Invs :
        (inv[i].pc = "done" /\ ~inv[i].raised /\ inv[i].fault # "none") =>
            /\ DOMAIN inv[i].result = {"error"}
            /\ inv[i].result["error"].tag = "diag"

\* the size check raised after output and stopPod were computed
C3_Witness ==
    \E i \in Invs :
        /\ inv[i].pc = "done"
        /\ inv[i].fault = "size"
        /\ ReturnedDict(i)
        /\ DOMAIN inv[i].orig = {"refresh_worker", "result"}
        /\ inv[i].orig["refresh_worker"] = "True"
        /\ DOMAIN inv[i].result = {"error"}

\* C4 as stated: a returned mapping with an error key, whatever its value,
\* gives an envelope whose error is that value, and no error key in output.
C4_ErrorAlwaysPassed ==
    \A i \in Invs :
        (Normal(i) /\ ReturnedDict(i) /\ "error" \in DOMAIN inv[i].orig) =>
            /\ "error" \in DOMAIN inv[i].result
            /\ inv[i].result["error"] = Scalar(inv[i].orig["error"])
            /\ "output" \in DOMAIN inv[i].result => "error" \notin DOMAIN OutputDict(i)

\* C4 as amended: a returned mapping with an error key gives, when nothing
\* raises, an envelope whose error is that value verbatim if the value is
\* truthy and an envelope without an error field if it is falsy; either way
\* output holds no error key.
C4_TruthyErrorPassed ==
    \A i \in Invs :
        (Normal(i) /\ ReturnedDict(i) /\ "error" \in DOMAIN inv[i].orig) =>
            /\ Truthy(inv[i].orig["error"]) =>
                  /\ "error" \in DOMAIN inv[i].result
                  /\ inv[i].result["error"] = Scalar(inv[i].orig["error"])
            /\ ~Truthy(inv[i].orig["error"]) => "error" \notin DOMAIN inv[i].result
            /\ "output" \in DOMAIN inv[i].result => "error" \notin DOMAIN OutputDict(i)

C4_Witness ==
    \E i \in Invs :
        /\ Normal(i)
        /\ ReturnedDict(i)
        /\ DOMAIN inv[i].orig = {"error", "result"}
        /\ inv[i].orig["error"] = "x"
        /\ inv[i].result["error"] = Scalar("x")
        /\ DOMAIN OutputDict(i) = {"result"}

\* C5: for a mapping M returned without a fault, with R = M less the keys
\* error and refresh_worker: output is R when R is not empty and is absent
\* when R is empty; stopPod is true exactly when M's refresh_worker is
\* truthy; no refresh_worker key remains; and a non-empty M without the two
\* keys gives exactly {output: M}.
C5_MappingEnvelope ==
    \A i \in Invs :
        (Normal(i) /\ ReturnedDict(i)) =>
            LET M == inv[i].orig
                R == Remainder(M)
                env == inv[i].result
            IN /\ R # EmptyMap =>
                    /\ "output" \in DOMAIN env
                    /\ env["output"].tag = "dict"
                    /\ OutputDict(i) = R
               /\ R = EmptyMap => "output" \notin DOMAIN env
               /\ "stopPod" \in DOMAIN env <=>
                    ("refresh_worker" \in DOMAIN M /\ Truthy(M["refresh_worker"]))
               /\ "stopPod" \in DOMAIN env => env["stopPod"] = Scalar("True")
               /\ "refresh_worker" \notin DOMAIN env
               /\ (M # EmptyMap /\ R = M) => DOMAIN env = {"output"}

\* a mapping holding only a falsy error and a truthy refresh_worker that is
\* not True: no output, stopPod set
C5_Witness ==
    \E i \in Invs :
        /\ Normal(i)
        /\ ReturnedDict(i)
        /\ DOMAIN inv[i].orig = {"error", "refresh_worker"}
        /\ inv[i].orig["refresh_worker"] = "x"
        /\ DOMAIN inv[i].result = {"stopPod"}

\* C10 as stated: run_job leaves the mapping the handler returned with
\* every key it had, and two invocations whose handler returns the same
\* mapping object return equal envelopes.
C10_NoMutation ==
    /\ \A i \in Invs :
          (inv[i].pc = "done" /\ ~inv[i].raised /\ ReturnedDict(i)) =>
              DOMAIN heap[inv[i].ret.ref] = DOMAIN inv[i].orig
    /\ \A i, j \in Invs :
          (Normal(i) /\ Normal(j) /\ ReturnedDict(i) /\ inv[i].ret = inv[j].ret) =>
              inv[i].result = inv[j].result

-----------------------------------------------------------------------------
(* Acquisition: the job tracker changes the backlog, the worker polls *)

InitAcquire ==
    /\ jobCount = 0
    /\ poll = NoPoll
    /\ handler = "fresh"
    /\ heap = NoHeap
    /\ inv = NoInvocations
    /\ script = NoScript
    /\ gen = NoGenerators

\* JobsQueue gains a job (external collaborator)
TrackerAdd ==
    /\ jobCount < MaxBacklog
    /\ jobCount' = jobCount + 1
    /\ UNCHANGED <<poll, handler, heap, inv, script, gen>>

\* JobsQueue loses a job (external collaborator)
TrackerRemove ==
    /\ jobCount > 0
    /\ jobCount' = jobCount - 1
    /\ UNCHANGED <<poll, handler, heap, inv, script, gen>>

\* get_job(session, num_jobs) is called: line 61 builds the URL, issues the
\* GET and suspends until the response arrives
GetJobRequest ==
    /\ poll.pc # "requesting"
    /\ \E n \in NumJobs :
          poll' = [pc |-> "requesting", done |-> FALSE, num_jobs |-> n,
                   backlog |-> jobCount,
                   prev |-> IF poll.done THEN poll.backlog ELSE -1,
                   url |-> job_get_url(n, jobCount), resp |-> NoResponse,
                   ret |-> FallThrough]
    /\ UNCHANGED <<jobCount, handler, heap, inv, script, gen>>

\* lines 62-96: the response, the timeout or the error arrives and get_job
\* runs to its return
GetJobResponse ==
    /\ poll.pc = "requesting"
    /\ \E resp \in Responses :
          poll' = [poll EXCEPT !.pc = "returned", !.done = TRUE, !.resp = resp,
                               !.ret = get_job(resp)]
    /\ UNCHANGED <<jobCount, handler, heap, inv, script, gen>>

NextAcquire == TrackerAdd \/ TrackerRemove \/ GetJobRequest \/ GetJobResponse

SpecAcquire == InitAcquire /\ [][NextAcquire]_vars

-----------------------------------------------------------------------------
(* Properties of the acquisition *)

\* the poll did not succeed: a status other than 200, a timeout, or an
\* exception while requesting or parsing
NonSuccess(resp) ==
    \/ resp.kind \in {"timeout", "client_error"}
    \/ resp.kind = "http" /\ resp.status # 200
    \/ resp.kind = "http" /\ resp.status = 200 /\ resp.shape = "malformed"

\* C1 as stated: every non-success outcome of a poll makes get_job return,
\* without raising, a list of zero job descriptors.
C1_EmptyListOnEveryFailure ==
    (poll.done /\ NonSuccess(poll.resp)) =>
        /\ poll.ret.ctl = "return"
        /\ ~poll.ret.none
        /\ poll.ret.jobs = <<>>

\* C1 as amended: every non-success outcome of a poll makes get_job return
\* without raising and hand on no job descriptor; what it returns is None
\* for status 204, 400 and every other status that is not 200, and the empty
\* list for a timeout and for any other exception of the request or parse.
C1_NoJobOnEveryFailure ==
    (poll.done /\ NonSuccess(poll.resp)) =>
        /\ poll.ret.ctl = "return"
        /\ poll.ret.jobs = <<>>
        /\ poll.ret.none <=> (poll.resp.kind = "http" /\ poll.resp.status # 200)

C1_Witness ==
    /\ poll.done
    /\ poll.resp.kind = "client_error"
    /\ poll.ret = Return(<<>>)
    /\ poll.prev >= 0

\* the decimal number a sequence of digit tokens spells
DigitValue(c) == CHOOSE d \in 0..9 : DigitChars[d + 1] = c

RECURSIVE ParseInt(_)
ParseInt(ds) ==
    IF Len(ds) = 0 THEN 0
    ELSE 10 * ParseInt(SubSeq(ds, 1, Len(ds) - 1)) + DigitValue(ds[Len(ds)])

\* C7: the request of a poll is a function of num_jobs and of the backlog
\* read at that poll: above 1 the batch endpoint with batch_size=<N> and
\* batch_strategy=LMove, at 1 the single-job endpoint and neither parameter;
\* job_in_progress comes last and is 1 exactly when the tracker holds a job
\* at that poll.
C7_PollRequest ==
    poll.done =>
        LET u == poll.url
            n == Len(u)
            base == Len(JOB_GET_URL)
        IN /\ n >= base + 2
           /\ u[n - 1] = "&job_in_progress="
           /\ u[n] = (IF poll.backlog >= 1 THEN "1" ELSE "0")
           /\ \A k \in 1..(n - 2) : u[k] # "&job_in_progress="
           /\ poll.num_jobs = 1 => SubSeq(u, 1, n - 2) = JOB_GET_URL
           /\ poll.num_jobs > 1 =>
                /\ u[2] = "/job-take-batch/"
                /\ \A k \in (1..base) \ {2} : u[k] = JOB_GET_URL[k]
                /\ u[base + 1] = "&batch_size="
                /\ n >= base + 5
                /\ ParseInt(SubSeq(u, base + 2, n - 3)) = poll.num_jobs
                /\ u[n - 2] = "&batch_strategy=LMove"

\* a poll with the backlog empty is followed by a batch poll with a job held
C7_Witness ==
    /\ poll.done
    /\ poll.prev = 0
    /\ poll.backlog >= 1
    /\ poll.num_jobs > 9
    /\ poll.url[Len(poll.url)] = "1"

\* C8: on status 200 a JSON object with id and input comes back as a list
\* of that one object, a JSON object lacking either gives the empty list,
\* and a JSON array comes back as it is: same elements, same order.
C8_BodyShapes ==
    (poll.done /\ poll.resp.kind = "http" /\ poll.resp.status = 200) =>
        /\ poll.ret.ctl = "return"
        /\ ~poll.ret.none
        /\ poll.resp.shape = "dict" =>
              IF {"id", "input"} \subseteq poll.resp.items[1].keys
              THEN poll.ret.jobs = <<poll.resp.items[1]>>
              ELSE poll.ret.jobs = <<>>
        /\ poll.resp.shape = "list" =>
              /\ Len(poll.ret.jobs) = Len(poll.resp.items)
              /\ \A k \in 1..Len(poll.resp.items) : poll.ret.jobs[k] = poll.resp.items[k]

\* a batch of two different elements, one of them without id, is handed on
C8_Witness ==
    /\ poll.done
    /\ poll.resp.shape = "list"
    /\ Len(poll.ret.jobs) = 2
    /\ poll.ret.jobs[1] # poll.ret.jobs[2]
    /\ "id" \notin poll.ret.jobs[1].keys

-----------------------------------------------------------------------------
(* Streaming invocation: one run per generator kind over one script *)

InitGen ==
    /\ jobCount = 0
    /\ poll = NoPoll
    /\ handler = "fresh"
    /\ heap = NoHeap
    /\ inv = NoInvocations
    /\ script \in Scripts
    /\ gen = NoGenerators

NextGen ==
    \/ \E b \in Branches : GenCall(b)
    \/ SyncNext
    \/ AsyncRequest
    \/ AsyncDeliver
    \/ \E b \in Branches : GenEnd(b)

SpecGen == InitGen /\ [][NextGen]_vars

-----------------------------------------------------------------------------
(* Properties of run_job_generator *)

\* what a script is to produce: an output partial per item in order, then
\* one error partial if it raises
Expected ==
    [k \in 1..Len(script.items) |-> [kind |-> "output", v |-> script.items[k]]]
        \o (IF script.raises THEN <<[kind |-> "error", v |-> "boom"]>> ELSE <<>>)

IsPrefix(s, t) == Len(s) <= Len(t) /\ \A k \in 1..Len(s) : s[k] = t[k]

\* C6: a run emits {output: x1} .. {output: xn} in production order, then
\* one error partial exactly when the handler raised, and then ends: at
\* every moment what was emitted is a prefix of that sequence, and at the
\* end it is the whole of it.
C6_Emission ==
    \A b \in Branches :
        /\ IsPrefix(gen[b].emitted, Expected)
        /\ gen[b].pc \in {"faulted", "done"} => gen[b].emitted = Expected

\* two items, then the handler raised, and the run ended
C6_Witness ==
    /\ gen["sync"].pc = "done"
    /\ script.raises
    /\ Len(script.items) = 2
    /\ script.items[1] # script.items[2]
    /\ Len(gen["sync"].emitted) = 3

\* C9: over the same items and the same fault point, the run over an
\* asynchronous generator and the run over a synchronous generator emit
\* the same sequence of partials.
C9_SameEmission ==
    (gen["sync"].pc = "done" /\ gen["async"].pc = "done") =>
        gen["sync"].emitted = gen["async"].emitted

C9_Witness ==
    /\ gen["sync"].pc = "done"
    /\ gen["async"].pc = "done"
    /\ script.raises
    /\ Len(script.items) = 2
    /\ script.items[1] # script.items[2]
    /\ Len(gen["async"].emitted) = 3

====
